---- MODULE Spec2Model ----
(***************************************************************************)
(* Model of src/src/addrandomid/addrandomid.py : AddRandomIdCommand.       *)
(* Python strings are sequences of one-character strings, so that          *)
(* str.lower, str.endswith, "in" and "+" are computed character by         *)
(* character.  A document is the sequence of the nodes that                *)
(* soup.descendants yields (document order); an attribute dictionary is    *)
(* the insertion-ordered sequence of its <<key, value>> pairs.             *)
(***************************************************************************)
EXTENDS Naturals, Integers, Sequences, FiniteSets, TLC

VARIABLES
    self,              \* the fields set by __init__
    dirs,              \* file system: the directories (path strings)
    files,             \* file system: path string -> text of the file
    start_files,       \* the file contents when execute was entered
    file_names,        \* execute: the list _find_file_names returned
    idx,               \* execute: 1-based position of the for loop
    document,          \* execute: text returned by _read
    document_with_id,  \* execute: text returned by _include_id
    run,               \* number of the current pass over the document
    pc                 \* position inside execute

vars == <<self, dirs, files, start_files, file_names, idx, document,
          document_with_id, run, pc>>

---------------------------------------------------------------------------
(* Bounds *)

MaxDocLen == 2
NumUuids == 2
MaxRuns == 2
MaxFiles == 2

---------------------------------------------------------------------------
(* Strings *)

UuidLen == 36

LowerChar(c) ==
    CASE c = "A" -> "a"
      [] c = "B" -> "b"
      [] c = "H" -> "h"
      [] c = "P" -> "p"
      [] c = "R" -> "r"
      [] c = "T" -> "t"
      [] OTHER -> c

\* str.lower()
Lower(s) == [i \in 1..Len(s) |-> LowerChar(s[i])]

\* str.endswith(suffix)
EndsWith(s, suffix) ==
    /\ Len(suffix) <= Len(s)
    /\ SubSeq(s, Len(s) - Len(suffix) + 1, Len(s)) = suffix

\* c in s, for a one-character c
HasChar(s, c) == \E i \in 1..Len(s) : s[i] = c

\* x in list
InList(x, list) == \E i \in 1..Len(list) : list[i] = x

Range(s) == {s[i] : i \in 1..Len(s)}

Perms(S) ==
    {s \in [1..Cardinality(S) -> S] :
        \A i, j \in 1..Cardinality(S) : i # j => s[i] # s[j]}

---------------------------------------------------------------------------
(* Class attributes: the defaults *)

EXTENSIONS == << <<"h","t","m","l">>, <<"h","m","l">>, <<"x","h","t","m","l">> >>

EXCLUDE_TAGS == << <<"s","c","r","i","p","t">>, <<"h","e","a","d">>,
                   <<"t","i","t","l","e">>, <<"h","t","m","l">>,
                   <<"b","r">>, <<"s","t","y","l","e">> >>

INCLUDE_TAGS == << <<"*">> >>

RECURSIVE_DEFAULT == FALSE

ENCODING == "utf-8"

PATH == <<".">>

PREFIX == <<>>

SUFFIX == <<>>

\* kwargs.get(key, default); kwargs is a function on the keys passed
KwGet(kwargs, key, default) ==
    IF key \in DOMAIN kwargs THEN kwargs[key] ELSE default

_get_suffix(kwargs) == KwGet(kwargs, "suffix", SUFFIX)
_get_prefix(kwargs) == KwGet(kwargs, "prefix", PREFIX)
_get_encoding(kwargs) == KwGet(kwargs, "encoding", ENCODING)
_get_extensions(kwargs) == KwGet(kwargs, "extensions", EXTENSIONS)
_get_recursive(kwargs) == KwGet(kwargs, "recursive", RECURSIVE_DEFAULT)
_get_path(kwargs) == KwGet(kwargs, "path", PATH)
_get_exclude_tags(kwargs) == KwGet(kwargs, "exclude_tags", EXCLUDE_TAGS)
_get_include_tags(kwargs) == KwGet(kwargs, "include_tags", INCLUDE_TAGS)

\* __init__
__init__(kwargs) ==
    [path |-> _get_path(kwargs),
     recursive |-> _get_recursive(kwargs),
     exclude_tags |-> _get_exclude_tags(kwargs),
     include_tags |-> _get_include_tags(kwargs),
     encoding |-> _get_encoding(kwargs),
     extensions |-> _get_extensions(kwargs),
     prefix |-> _get_prefix(kwargs),
     suffix |-> _get_suffix(kwargs)]

---------------------------------------------------------------------------
(* Documents *)

\* bs4.element.Tag and the other kinds of node soup.descendants yields
Tag(name, attrs) == [kind |-> "Tag", name |-> name, attrs |-> attrs]
NavigableString(text) == [kind |-> "NavigableString", name |-> text, attrs |-> <<>>]

\* the optional result of dict.get : None, or the value found
None == <<>>
Some(v) == <<v>>

\* variant: no value counts as true
Truthy_never(opt) == FALSE

\* Python truth value of the result of tag.get : None and "" are false
Truthy(opt) == opt # None /\ Len(opt[1]) > 0

\* tag.get(key)
tag_get(tag, key) ==
    IF \E i \in 1..Len(tag.attrs) : tag.attrs[i][1] = key
    THEN Some(tag.attrs[CHOOSE i \in 1..Len(tag.attrs) : tag.attrs[i][1] = key][2])
    ELSE None

\* tag[key] = value : replaces the value in place, or appends the key
tag_set(tag, key, value) ==
    IF \E i \in 1..Len(tag.attrs) : tag.attrs[i][1] = key
    THEN [tag EXCEPT !.attrs =
            [i \in 1..Len(tag.attrs) |->
                IF tag.attrs[i][1] = key THEN <<key, value>> ELSE tag.attrs[i]]]
    ELSE [tag EXCEPT !.attrs = Append(tag.attrs, <<key, value>>)]

\* BeautifulSoup(document, 'html.parser').descendants : the nodes of the
\* text in document order; html.parser lower-cases the tag names
BeautifulSoup(text) ==
    [i \in 1..Len(text) |->
        IF text[i].kind = "Tag"
        THEN [text[i] EXCEPT !.name = Lower(text[i].name)]
        ELSE text[i]]

Hex == <<"0","1","2","3","4","5","6","7","8","9","a","b","c","d","e","f">>

\* str(uuid.uuid4()) for the n-th possible draw: 8-4-4-4-12 hexadecimal
\* digits, version digit 4
uuid4(n) ==
    [i \in 1..UuidLen |->
        IF i \in {9, 14, 19, 24} THEN "-"
        ELSE IF i = 15 THEN "4"
        ELSE Hex[n]]

\* variant: exclude_tags is not consulted
_is_valid_tag_noexclude(obj, tag) ==
    /\ tag.kind = "Tag"
    /\ \/ obj.include_tags = INCLUDE_TAGS
       \/ InList(Lower(tag.name), obj.include_tags)

\* variant: the sentinel is not recognised, include_tags is always a list
\* of names
_is_valid_tag_nosentinel(obj, tag) ==
    /\ tag.kind = "Tag"
    /\ ~InList(Lower(tag.name), obj.exclude_tags)
    /\ InList(Lower(tag.name), obj.include_tags)

\* _is_valid_tag
_is_valid_tag(obj, tag) ==
    /\ tag.kind = "Tag"
    /\ ~InList(Lower(tag.name), obj.exclude_tags)
    /\ \/ obj.include_tags = INCLUDE_TAGS
       \/ InList(Lower(tag.name), obj.include_tags)

\* variant: the suffix is left out
_new_id_nosuffix(obj, n) == obj.prefix \o uuid4(n)

\* _new_id ; n is the draw of the generator
_new_id(obj, n) == obj.prefix \o uuid4(n) \o obj.suffix

\* variant: an existing id is not looked at
VisitTag_overwrite(obj, tag, n) ==
    IF ~_is_valid_tag(obj, tag)
    THEN tag
    ELSE tag_set(tag, "id", _new_id(obj, n))

\* one iteration of the loop of _include_id
VisitTag(obj, tag, n) ==
    IF ~_is_valid_tag(obj, tag) \/ Truthy(tag_get(tag, "id"))
    THEN tag
    ELSE tag_set(tag, "id", _new_id(obj, n))

\* _include_id ; draws[i] is the draw made if the i-th node gets an id.
\* The text str(soup) returns is written as the sequence of the nodes' tags.
_include_id(obj, text, draws) ==
    LET soup == BeautifulSoup(text)
    IN  [i \in 1..Len(soup) |-> VisitTag(obj, soup[i], draws[i])]

---------------------------------------------------------------------------
(* File system and discovery *)

\* position of the last "/" of a path, 0 when there is none
LastSlash(p) ==
    IF HasChar(p, "/")
    THEN CHOOSE i \in 1..Len(p) :
            p[i] = "/" /\ \A j \in (i + 1)..Len(p) : p[j] # "/"
    ELSE 0

Dirname(p) == SubSeq(p, 1, LastSlash(p) - 1)
Basename(p) == SubSeq(p, LastSlash(p) + 1, Len(p))

\* os.path.join(root, name) for a relative name
Join(root, name) ==
    IF root = <<>> \/ root[Len(root)] = "/"
    THEN root \o name
    ELSE root \o <<"/">> \o name

\* the entries os.walk lists for the directory root
ListFiles(root) == {Basename(p) : p \in {q \in DOMAIN files : Dirname(q) = root}}
ListDirs(root) == {Basename(p) : p \in {q \in dirs : Dirname(q) = root}}

\* _is_valid_extension
_is_valid_extension(obj, filename) ==
    \E k \in 1..Len(obj.extensions) :
        LET ext == obj.extensions[k]
            extension == (IF ~HasChar(ext, ".") THEN <<".">> ELSE <<>>) \o Lower(ext)
        IN  EndsWith(Lower(filename), extension)

\* the body of the for loop of _find_file_names for one directory, whose
\* files are listed in the order names
VisitFiles(obj, root, names) ==
    SelectSeq([i \in 1..Len(names) |-> Join(root, names[i])],
              LAMBDA filename : _is_valid_extension(obj, filename))

\* variant: the list of directories is never cleared
Descend_always(obj, root) == ListDirs(root)

\* the subdirectories os.walk descends into after the loop body ran:
\* directories.clear() leaves none when the search is not recursive
Descend(obj, root) == IF ~obj.recursive THEN {} ELSE ListDirs(root)

RECURSIVE Walk(_, _), WalkEach(_, _, _)

\* the lists _find_file_names can build from the directory root downwards,
\* one for every order in which the file system lists the entries
Walk(obj, root) ==
    UNION { UNION { { VisitFiles(obj, root, names) \o below :
                        below \in WalkEach(obj, root, subdirs) } :
                    subdirs \in Perms(Descend(obj, root)) } :
            names \in Perms(ListFiles(root)) }

WalkEach(obj, root, subdirs) ==
    IF subdirs = <<>>
    THEN {<<>>}
    ELSE { first \o rest :
             first \in Walk(obj, Join(root, Head(subdirs))),
             rest \in WalkEach(obj, root, Tail(subdirs)) }

\* _find_file_names : os.walk yields nothing for a path that is no directory
_find_file_names(obj) ==
    IF obj.path \in dirs THEN Walk(obj, obj.path) ELSE {<<>>}

---------------------------------------------------------------------------
(* The inputs the specifications draw from *)

s_p == <<"p">>
s_P == <<"P">>
s_br == <<"b","r">>
s_h == <<"h">>
s_k == <<"k">>

\* nodes of the documents: <p>, <P>, <p id="k">, <p id="">, <br class="c">
\* and a text node
Nodes ==
    { Tag(s_p, <<>>),
      Tag(s_P, <<>>),
      Tag(s_p, << <<"id", s_k>> >>),
      Tag(s_p, << <<"id", <<>> >> >>),
      Tag(s_br, << <<"class", <<"c">> >> >>),
      NavigableString(<<"x">>) }

Docs == UNION {[1..n -> Nodes] : n \in 1..MaxDocLen}

ExcludeChoices == { <<>>, <<s_p>>, <<s_P>>, <<s_br, s_p>> }
IncludeChoices == { INCLUDE_TAGS, <<s_p>>, <<s_P>>, <<s_br>>, << <<"*">>, s_p >> }
PrefixChoices == { <<"x","-">> }
SuffixChoices == { <<"-","y">> }
ExtensionChoices ==
    { <<s_h>>, << <<".","h">> >>, << <<"H">> >>, << <<"t",".","h">> >>,
      << <<"t","x","t">>, s_h >> }
PathChoices == { <<".","/","d">> }

\* the keyword arguments of a call AddRandomIdCommand(**kwargs)
Kwargs(keys, values) == [k \in keys |-> values[k]]

TagKeys == {"exclude_tags", "include_tags", "prefix", "suffix"}
TagValues ==
    [exclude_tags : ExcludeChoices, include_tags : IncludeChoices,
     prefix : PrefixChoices, suffix : SuffixChoices]

FindKeys == {"path", "recursive", "extensions"}
FindValues ==
    [path : PathChoices, recursive : BOOLEAN, extensions : ExtensionChoices]

\* the directory tree  ./  ./d/  ./d/e/
TreeDirs == { <<".">>, <<".","/","d">>, <<".","/","d","/","e">> }

FileNameChoices ==
    { <<"a",".","h">>, <<"A",".","H">>, <<"a","t",".","h">>,
      <<"a",".","t",".","h">>, <<"a",".","h","t","m","l">>,
      <<"b",".","t","x","t">> }

CandidatePaths == {Join(d, n) : d \in TreeDirs, n \in FileNameChoices}

EmptyFiles == [q \in {} |-> <<>>]

\* the files of the runs of execute
TreeFiles ==
    LET a == <<".","/","a",".","h">>
        b == <<".","/","b",".","h">>
        c == <<".","/","c",".","t","x","t">>
        d == <<".","/","d","/","c",".","h">>
        e == <<".","/","d","/","e","/","e",".","h">>
    IN  [q \in {a, b, c, d, e} |->
            IF q = a THEN << Tag(s_p, <<>>) >>
            ELSE IF q = b THEN << Tag(s_p, << <<"id", <<>> >> >>), NavigableString(<<"x">>) >>
            ELSE IF q = c THEN << Tag(s_p, <<>>) >>
            ELSE IF q = d THEN << Tag(s_P, << <<"id", s_k>> >>), Tag(s_br, <<>>) >>
            ELSE << Tag(s_P, <<>>) >>]

---------------------------------------------------------------------------
(* Initial states *)

\* a command constructed for a directory tree, before execute
Init ==
    /\ \E keys \in SUBSET {"path", "recursive", "extensions", "prefix"} :
       \E values \in [path : PathChoices, recursive : BOOLEAN,
                      extensions : {<<s_h>>}, prefix : PrefixChoices] :
          self = __init__(Kwargs(keys, values))
    /\ dirs = TreeDirs
    /\ files = TreeFiles
    /\ start_files = files
    /\ file_names = <<>>
    /\ idx = 1
    /\ document = <<>>
    /\ document_with_id = <<>>
    /\ run = 1
    /\ pc = "start"

\* a command and a document text about to be given to _include_id
InitInclude ==
    /\ \E keys \in SUBSET TagKeys : \E values \in TagValues :
          self = __init__(Kwargs(keys, values))
    /\ dirs = {}
    /\ files = EmptyFiles
    /\ start_files = files
    /\ file_names = <<>>
    /\ idx = 1
    /\ document \in Docs
    /\ document_with_id = <<>>
    /\ run = 1
    /\ pc = "read"

\* a command and a directory tree about to be searched
InitFind ==
    /\ \E keys \in SUBSET FindKeys : \E values \in FindValues :
          self = __init__(Kwargs(keys, values))
    /\ dirs = TreeDirs
    /\ \E paths \in SUBSET CandidatePaths :
          /\ Cardinality(paths) <= MaxFiles
          /\ files = [q \in paths |-> << Tag(s_p, <<>>) >>]
    /\ start_files = files
    /\ file_names = <<>>
    /\ idx = 1
    /\ document = <<>>
    /\ document_with_id = <<>>
    /\ run = 1
    /\ pc = "start"

---------------------------------------------------------------------------
(* Actions: the steps of execute *)

\* execute: file_names = self._find_file_names()
FindFileNames ==
    /\ pc = "start"
    /\ \E result \in _find_file_names(self) : file_names' = result
    /\ idx' = 1
    /\ pc' = "loop"
    /\ UNCHANGED <<self, dirs, files, start_files, document, document_with_id, run>>

\* execute: document = self._read(filename)
Read ==
    /\ pc = "loop"
    /\ idx <= Len(file_names)
    /\ document' = files[file_names[idx]]
    /\ pc' = "read"
    /\ UNCHANGED <<self, dirs, files, start_files, file_names, idx, document_with_id, run>>

\* variant: the error is swallowed and the loop goes on with the next file
ReadFail_skip ==
    /\ pc = "loop"
    /\ idx <= Len(file_names)
    /\ idx' = idx + 1
    /\ UNCHANGED <<self, dirs, files, start_files, file_names, pc, document,
                   document_with_id, run>>

\* _read raises (open or decoding fails): the error leaves execute
ReadFail ==
    /\ pc = "loop"
    /\ idx <= Len(file_names)
    /\ pc' = "failed"
    /\ UNCHANGED <<self, dirs, files, start_files, file_names, idx, document,
                   document_with_id, run>>

\* execute: document_with_id = self._include_id(document)
IncludeId ==
    /\ pc = "read"
    /\ \E draws \in [1..Len(document) -> 1..NumUuids] :
          document_with_id' = _include_id(self, document, draws)
    /\ pc' = "included"
    /\ UNCHANGED <<self, dirs, files, start_files, file_names, idx, document, run>>

\* the parser raises inside _include_id: the error leaves execute
IncludeFail ==
    /\ pc = "read"
    /\ pc' = "failed"
    /\ UNCHANGED <<self, dirs, files, start_files, file_names, idx, document,
                   document_with_id, run>>

\* variant: the text is written next to the file, under another name
Save_aside ==
    /\ pc = "included"
    /\ idx <= Len(file_names)
    /\ files' = ((file_names[idx] \o <<"~">>) :> document_with_id) @@ files
    /\ idx' = idx + 1
    /\ pc' = "loop"
    /\ UNCHANGED <<self, dirs, start_files, file_names, document, document_with_id, run>>

\* execute: self._save(filename, document_with_id) ; open(mode="w") creates
\* the file when it does not exist
Save ==
    /\ pc = "included"
    /\ idx <= Len(file_names)
    /\ files' = (file_names[idx] :> document_with_id) @@ files
    /\ idx' = idx + 1
    /\ pc' = "loop"
    /\ UNCHANGED <<self, dirs, start_files, file_names, document, document_with_id, run>>

\* _save raises: open fails and the file is as it was, or the write fails
\* after open truncated the file and some part of the text was written
SaveFail ==
    /\ pc = "included"
    /\ idx <= Len(file_names)
    /\ \/ UNCHANGED files
       \/ \E k \in 0..Len(document_with_id) :
             files' = (file_names[idx] :> SubSeq(document_with_id, 1, k)) @@ files
    /\ pc' = "failed"
    /\ UNCHANGED <<self, dirs, start_files, file_names, idx, document,
                   document_with_id, run>>

\* execute: the for loop is exhausted
Finish ==
    /\ pc = "loop"
    /\ idx > Len(file_names)
    /\ pc' = "done"
    /\ UNCHANGED <<self, dirs, files, start_files, file_names, idx, document,
                   document_with_id, run>>

\* the text _include_id returned is given to _include_id again
Reinclude ==
    /\ pc = "included"
    /\ run < MaxRuns
    /\ document' = document_with_id
    /\ run' = run + 1
    /\ pc' = "read"
    /\ UNCHANGED <<self, dirs, files, start_files, file_names, idx, document_with_id>>

Next ==
    \/ FindFileNames
    \/ Read
    \/ ReadFail
    \/ IncludeId
    \/ IncludeFail
    \/ Save
    \/ SaveFail
    \/ Finish

Spec == Init /\ [][Next]_vars

NextInclude ==
    \/ IncludeId
    \/ Reinclude

SpecInclude == InitInclude /\ [][NextInclude]_vars

NextFind == FindFileNames

SpecFind == InitFind /\ [][NextFind]_vars

---------------------------------------------------------------------------
(* Properties of _include_id, checked under SpecInclude *)

\* the elements _include_id saw, and the same elements in its result
Before == BeautifulSoup(document)
After == BeautifulSoup(document_with_id)

Elements == {i \in 1..Len(Before) : Before[i].kind = "Tag"}

HadId(i) == Truthy(tag_get(Before[i], "id"))
Excluded(i) == InList(Lower(Before[i].name), self.exclude_tags)

\* the i-th element has been given an id by this run of _include_id
Received(i) == ~HadId(i) /\ tag_get(After[i], "id") # tag_get(Before[i], "id")

\* C1: an element that carries a non-empty id before _include_id carries the
\* same id value after it, whatever the configuration is.
C1_IdKept ==
    pc = "included" =>
        \A i \in Elements :
            HadId(i) => tag_get(After[i], "id") = tag_get(Before[i], "id")

C1_Witness ==
    /\ pc = "included"
    /\ \E i, j \in Elements : HadId(i) /\ Received(j)

\* C2: a second run of _include_id over the text the first run returned
\* assigns no identifier and changes no id value: the text is returned as is.
C2_SecondRunIdle ==
    (pc = "included" /\ run >= 2) => document_with_id = document

C2_Witness ==
    /\ pc = "included"
    /\ run = 2
    /\ \E i \in Elements :
          /\ _is_valid_tag(self, Before[i])
          /\ HadId(i)
          /\ Len(tag_get(Before[i], "id")[1]) >= UuidLen

\* C3: an element whose lower-cased tag name is in exclude_tags is given no
\* id (its attributes are left as they were), also when the name is in
\* include_tags as well.
C3_ExcludedUntouched ==
    pc = "included" =>
        \A i \in Elements : Excluded(i) => After[i] = Before[i]

C3_Witness ==
    /\ pc = "included"
    /\ \E i \in Elements :
          /\ Excluded(i)
          /\ InList(Lower(Before[i].name), self.include_tags)
          /\ ~HadId(i)

\* C4: with include_tags the sentinel ["*"], an element receives an id iff
\* it is not excluded and has no non-empty id; with any other include_tags,
\* iff moreover its lower-cased tag name is in include_tags.
C4_Inclusion ==
    pc = "included" =>
        \A i \in Elements :
            Received(i) <=>
                /\ ~Excluded(i)
                /\ ~HadId(i)
                /\ \/ self.include_tags = << <<"*">> >>
                   \/ InList(Lower(Before[i].name), self.include_tags)

C4_Witness ==
    /\ pc = "included"
    /\ self.include_tags # << <<"*">> >>
    /\ \E i, j \in Elements :
          /\ Received(i)
          /\ ~Received(j) /\ ~Excluded(j) /\ ~HadId(j)

\* the configuration with the configured tag names lower-cased
LowerNames(list) == [k \in 1..Len(list) |-> Lower(list[k])]
LowerCased(obj) ==
    [obj EXCEPT !.exclude_tags = LowerNames(obj.exclude_tags),
                !.include_tags = LowerNames(obj.include_tags)]

\* C5: the configured tag names are compared case-insensitively: an element
\* receives an id exactly when it would with exclude_tags and include_tags
\* lower-cased.
C5_ConfiguredCaseIgnored ==
    pc = "included" =>
        \A i \in Elements :
            Received(i) <=> (_is_valid_tag(LowerCased(self), Before[i]) /\ ~HadId(i))

IsHexDigit(c) == \E n \in 1..Len(Hex) : Hex[n] = c

\* the 36-character form of a UUID
IsUuid(u) ==
    /\ Len(u) = UuidLen
    /\ \A n \in 1..Len(u) :
          IF n \in {9, 14, 19, 24} THEN u[n] = "-" ELSE IsHexDigit(u[n])

\* C6: every id _include_id assigns is prefix + u + suffix for a UUID string
\* u of 36 characters; no other value is written to an id attribute.
C6_IdShape ==
    pc = "included" =>
        \A i \in Elements :
            \/ tag_get(After[i], "id") = tag_get(Before[i], "id")
            \/ LET v == tag_get(After[i], "id")[1]
                   lp == Len(self.prefix)
               IN  /\ Len(v) = lp + UuidLen + Len(self.suffix)
                   /\ SubSeq(v, 1, lp) = self.prefix
                   /\ IsUuid(SubSeq(v, lp + 1, lp + UuidLen))
                   /\ SubSeq(v, lp + UuidLen + 1, Len(v)) = self.suffix

C6_Witness ==
    /\ pc = "included"
    /\ self.prefix # <<>>
    /\ self.suffix # <<>>
    /\ \E i \in Elements : Received(i)

---------------------------------------------------------------------------
(* Properties of _find_file_names, checked under SpecFind *)

\* the file p lies below the directory top, at any depth
Under(top, p) ==
    /\ Len(p) > Len(top) + 1
    /\ SubSeq(p, 1, Len(top) + 1) = top \o <<"/">>

\* the file p lies directly in the directory top
DirectlyIn(top, p) == Dirname(p) = top

Returned(p) == p \in Range(file_names)

\* C7: without recursive, only files that sit directly in the directory path
\* are returned; with recursive, the matching files of the directories at
\* every depth below path are returned as well.
C7_Recursion ==
    pc = "loop" =>
        /\ ~self.recursive =>
              \A p \in Range(file_names) : p \in DOMAIN files /\ DirectlyIn(self.path, p)
        /\ self.recursive =>
              \A p \in DOMAIN files :
                  (Under(self.path, p) /\ _is_valid_extension(self, p)) => Returned(p)

C7_Witness ==
    /\ pc = "loop"
    /\ ~self.recursive
    /\ file_names # <<>>
    /\ \E p \in DOMAIN files :
          /\ Under(self.path, p)
          /\ ~DirectlyIn(self.path, p)
          /\ _is_valid_extension(self, p)
          /\ ~Returned(p)

\* an extension given a leading dot when it has none
LeadingDot(ext) ==
    IF ext # <<>> /\ ext[1] = "." THEN ext ELSE <<".">> \o ext

\* the files the search visits
Visited(p) ==
    IF self.recursive THEN Under(self.path, p) ELSE DirectlyIn(self.path, p)

\* C8: a visited file is returned iff its path, compared case-insensitively,
\* ends with a configured extension normalised to have a leading dot, for
\* every extension string, also one with a dot inside it.
C8_ExtensionMatch ==
    pc = "loop" =>
        \A p \in DOMAIN files :
            Visited(p) =>
                (Returned(p) <=>
                    \E k \in 1..Len(self.extensions) :
                        EndsWith(Lower(p), LeadingDot(Lower(self.extensions[k]))))

---------------------------------------------------------------------------
(* Properties of execute, checked under Spec *)

\* the texts _include_id can return for a text
Transformed(text) ==
    {_include_id(self, text, draws) : draws \in [1..Len(text) -> 1..NumUuids]}

InLoop == pc \in {"loop", "read", "included", "failed", "done"}

\* C9: the files are processed one at a time in the order of file_names:
\* at every point of the loop, and when an error has stopped the run at the
\* file of position idx, every file before idx holds its transformed text and
\* every file after idx holds the content it had when execute started; the
\* file at idx is not written before its own save.
C9_OneAtATime ==
    InLoop =>
        /\ \A j \in 1..Len(file_names) :
              /\ j < idx => files[file_names[j]] \in Transformed(start_files[file_names[j]])
              /\ j > idx => files[file_names[j]] = start_files[file_names[j]]
        /\ (pc \in {"loop", "read", "included"} /\ idx <= Len(file_names)) =>
              files[file_names[idx]] = start_files[file_names[idx]]
        /\ pc = "done" => idx = Len(file_names) + 1

C9_Witness ==
    /\ pc = "failed"
    /\ idx = 2
    /\ Len(file_names) >= 3
    /\ files[file_names[1]] # start_files[file_names[1]]
    /\ files[file_names[2]] # start_files[file_names[2]]

\* C10: execute creates and deletes no file and no directory, and a file
\* that discovery did not return keeps its content.
C10_Frame ==
    /\ DOMAIN files = DOMAIN start_files
    /\ dirs = TreeDirs
    /\ \A p \in DOMAIN files : ~Returned(p) => files[p] = start_files[p]

C10_Witness ==
    /\ pc = "done"
    /\ \E p, q \in DOMAIN files :
          /\ Returned(p) /\ files[p] # start_files[p]
          /\ ~Returned(q) /\ Under(self.path, q)

====
